---- MODULE Spec2Model ----
(***************************************************************************)
(* Model of src/chap1.py: the finite-difference solvers for u' = -a u,    *)
(* u(0) = I (Forward Euler, Backward Euler, Crank-Nicolson, theta-rule),  *)
(* the scheme functions that run and print them, and the driver main().   *)
(*                                                                         *)
(* Python's float and numpy's float64 are IEEE 754 binary64.  A double is  *)
(* modelled exactly: a record [s, m, e] with value (-1)^s * m * 2^e, where *)
(* m is 0 or a 53-bit natural number, and every arithmetic operation       *)
(* rounds the exact result to nearest, ties to even.  TLC's integers are   *)
(* 32 bits wide, so naturals that do not fit (53-bit significands, their   *)
(* products) are sequences of 15-bit limbs, least significant first.  The  *)
(* exponent range of binary64 (overflow, subnormals) is not modelled: the  *)
(* values reached here stay far inside it.                                 *)
(***************************************************************************)
EXTENDS Integers, Sequences, FiniteSets, TLC

(***************************************************************************)
(* Natural numbers of any size: sequences of limbs in base 2^15, least     *)
(* significant limb first, no leading zero limb; <<>> is zero.             *)
(***************************************************************************)
Base == 2^15

RECURSIVE BNNorm(_)
BNNorm(x) ==
    IF x = <<>> THEN x
    ELSE IF x[Len(x)] = 0 THEN BNNorm(SubSeq(x, 1, Len(x) - 1)) ELSE x

RECURSIVE BNFromInt(_)
BNFromInt(n) == IF n = 0 THEN <<>> ELSE <<n % Base>> \o BNFromInt(n \div Base)

RECURSIVE BNToInt(_)
BNToInt(x) == IF x = <<>> THEN 0 ELSE x[1] + Base * BNToInt(Tail(x))

Limb(x, i) == IF i <= Len(x) THEN x[i] ELSE 0

RECURSIVE BNAddC(_, _, _, _)
BNAddC(x, y, i, c) ==
    IF i > Len(x) /\ i > Len(y)
    THEN IF c = 0 THEN <<>> ELSE <<c>>
    ELSE LET s == Limb(x, i) + Limb(y, i) + c
         IN  <<s % Base>> \o BNAddC(x, y, i + 1, s \div Base)

BNAdd(x, y) == BNAddC(x, y, 1, 0)

RECURSIVE BNSubC(_, _, _, _)
BNSubC(x, y, i, b) ==
    IF i > Len(x) THEN <<>>
    ELSE LET s == x[i] - Limb(y, i) - b
         IN  IF s < 0 THEN <<s + Base>> \o BNSubC(x, y, i + 1, 1)
                      ELSE <<s>> \o BNSubC(x, y, i + 1, 0)

\* x - y, for x >= y
BNSub(x, y) == BNNorm(BNSubC(x, y, 1, 0))

RECURSIVE BNCmpAt(_, _, _)
BNCmpAt(x, y, i) ==
    IF i = 0 THEN 0
    ELSE IF x[i] > y[i] THEN 1
    ELSE IF x[i] < y[i] THEN -1
    ELSE BNCmpAt(x, y, i - 1)

\* -1, 0, 1 as x < y, x = y, x > y
BNCmp(x, y) ==
    IF Len(x) > Len(y) THEN 1
    ELSE IF Len(x) < Len(y) THEN -1
    ELSE BNCmpAt(x, y, Len(x))

RECURSIVE BNMulSmallC(_, _, _, _)
BNMulSmallC(x, d, i, c) ==
    IF i > Len(x)
    THEN IF c = 0 THEN <<>> ELSE <<c>>
    ELSE LET p == x[i] * d + c
         IN  <<p % Base>> \o BNMulSmallC(x, d, i + 1, p \div Base)

\* x * d, for 0 <= d < Base
BNMulSmall(x, d) == IF d = 0 THEN <<>> ELSE BNMulSmallC(x, d, 1, 0)

BNShiftLimbs(x, k) == IF x = <<>> THEN x ELSE [i \in 1..k |-> 0] \o x

RECURSIVE BNMulAt(_, _, _)
BNMulAt(x, y, i) ==
    IF i > Len(x) THEN <<>>
    ELSE BNAdd(BNShiftLimbs(BNMulSmall(y, x[i]), i - 1), BNMulAt(x, y, i + 1))

BNMul(x, y) == BNMulAt(x, y, 1)

\* x * 2^k
BNShl(x, k) == BNShiftLimbs(BNMulSmall(x, 2^(k % 15)), k \div 15)

RECURSIVE BNDivSmallC(_, _, _, _)
BNDivSmallC(x, d, i, r) ==
    IF i = 0 THEN <<>>
    ELSE LET c == r * Base + x[i]
         IN  BNDivSmallC(x, d, i - 1, c % d) \o <<c \div d>>

\* x \div d, for 0 < d < Base
BNDivSmall(x, d) == BNNorm(BNDivSmallC(x, d, Len(x), 0))

BNDropLimbs(x, k) == IF k >= Len(x) THEN <<>> ELSE SubSeq(x, k + 1, Len(x))

\* x \div 2^k
BNShr(x, k) == BNDivSmall(BNDropLimbs(x, k \div 15), 2^(k % 15))

RECURSIVE IntBitLen(_)
IntBitLen(n) == IF n = 0 THEN 0 ELSE 1 + IntBitLen(n \div 2)

BNBitLen(x) == IF x = <<>> THEN 0 ELSE 15 * (Len(x) - 1) + IntBitLen(x[Len(x)])

\* the low k bits of x are all zero
BNLowZero(x, k) ==
    /\ \A i \in 1..(k \div 15) : Limb(x, i) = 0
    /\ Limb(x, k \div 15 + 1) % 2^(k % 15) = 0

BNOdd(x) == x # <<>> /\ x[1] % 2 = 1

\* q + 1 if the discarded part is more than a half, or exactly a half and q
\* is odd: odd says the first discarded bit is 1, exact that the rest are 0
BNBump(q, odd, exact) ==
    IF odd /\ (~exact \/ BNOdd(q)) THEN BNAdd(q, <<1>>) ELSE q

BNHalve(h, exact) == BNBump(BNDivSmall(h, 2), BNOdd(h), exact)

\* x / 2^k rounded to the nearest integer, ties to even
BNShrRNE(x, k) ==
    IF k = 0 THEN x ELSE BNHalve(BNShr(x, k - 1), BNLowZero(x, k - 1))

\* Long division (Knuth's algorithm D): the divisor is scaled so that its top
\* limb is at least Base/2; each quotient limb, estimated from the top limbs,
\* is then at most 2 too large.
RECURSIVE BNFixDigit(_, _, _, _)
BNFixDigit(r, d, q, t) ==
    IF BNCmp(t, r) > 0 THEN BNFixDigit(r, d, q - 1, BNSub(t, d))
    ELSE <<q, BNSub(r, t)>>

BNTryDigit(r, d, q) ==
    BNFixDigit(r, d, IF q > Base - 1 THEN Base - 1 ELSE q,
               BNMulSmall(d, IF q > Base - 1 THEN Base - 1 ELSE q))

\* <<r \div d, r % d>> for r < d * Base
BNDigit(r, d) ==
    IF BNCmp(r, d) < 0 THEN <<0, r>>
    ELSE BNTryDigit(r, d, (Limb(r, Len(d) + 1) * Base + r[Len(d)]) \div d[Len(d)])

RECURSIVE BNDivModAt(_, _, _, _, _)
BNDivStep(n, d, i, qs, qr) == BNDivModAt(n, d, i - 1, qr[2], <<qr[1]>> \o qs)

\* the limbs n[i], ..., n[1] still to bring down, the remainder r and the
\* quotient limbs qs so far
BNDivModAt(n, d, i, r, qs) ==
    IF i = 0 THEN <<BNNorm(qs), r>>
    ELSE BNDivStep(n, d, i, qs, BNDigit(BNNorm(<<n[i]>> \o r), d))

BNUnscale(qr, sh) == <<qr[1], BNShr(qr[2], sh)>>

BNDivModScaled(n, d, sh) ==
    BNUnscale(BNDivModAt(n, d, Len(n), <<>>, <<>>), sh)

\* <<n \div d, n % d>>, for d # 0
BNDivMod(n, d) ==
    BNDivModScaled(BNShl(n, 15 - IntBitLen(d[Len(d)])),
                   BNShl(d, 15 - IntBitLen(d[Len(d)])),
                   15 - IntBitLen(d[Len(d)]))

BNRoundQuot(qr, c) ==
    IF c > 0 \/ (c = 0 /\ BNOdd(qr[1])) THEN BNAdd(qr[1], <<1>>) ELSE qr[1]

BNCmpHalf(qr, d) == BNRoundQuot(qr, BNCmp(BNMulSmall(qr[2], 2), d))

\* n / d rounded to the nearest integer, ties to even
BNDivRNE(n, d) == BNCmpHalf(BNDivMod(n, d), d)

RECURSIVE BNPow10(_)
BNPow10(k) == IF k = 0 THEN <<1>> ELSE BNMulSmall(BNPow10(k - 1), 10)

(***************************************************************************)
(* Exact dyadic numbers [s, m, e] = (-1)^s * m * 2^e (m of any size), and  *)
(* the doubles among them: m = 0 (then e = 0), or m has exactly Prec bits. *)
(***************************************************************************)
Prec == 53

Two52 == <<0, 0, 0, 128>>
Two53 == <<0, 0, 0, 256>>

Zero(s) == [s |-> s, m |-> <<>>, e |-> 0]

XInt(n) == IF n < 0 THEN [s |-> 1, m |-> BNFromInt(-n), e |-> 0]
                    ELSE [s |-> 0, m |-> BNFromInt(n), e |-> 0]

XPow2(k) == [s |-> 0, m |-> <<1>>, e |-> k]

XNeg(x) == [x EXCEPT !.s = 1 - x.s]
XAbs(x) == [x EXCEPT !.s = 0]

XMul(x, y) ==
    IF x.m = <<>> \/ y.m = <<>> THEN Zero((x.s + y.s) % 2)
    ELSE [s |-> (x.s + y.s) % 2, m |-> BNMul(x.m, y.m), e |-> x.e + y.e]

\* the difference of two magnitudes mx # my with signs sx # sy, c = BNCmp(mx, my)
XDiff(sx, mx, sy, my, e, c) ==
    IF c = 0 THEN Zero(0)
    ELSE IF c > 0 THEN [s |-> sx, m |-> BNSub(mx, my), e |-> e]
    ELSE [s |-> sy, m |-> BNSub(my, mx), e |-> e]

\* the sum of (-1)^sx * mx * 2^e and (-1)^sy * my * 2^e
XAligned(sx, mx, sy, my, e) ==
    IF sx = sy THEN [s |-> sx, m |-> BNAdd(mx, my), e |-> e]
    ELSE XDiff(sx, mx, sy, my, e, BNCmp(mx, my))

Min(i, j) == IF i < j THEN i ELSE j
Max(i, j) == IF i > j THEN i ELSE j

\* IEEE 754: the sum of two zeros is -0 only if both are -0; an exact
\* cancellation gives +0
XAdd(x, y) ==
    IF x.m = <<>> /\ y.m = <<>> THEN Zero(IF x.s = 1 /\ y.s = 1 THEN 1 ELSE 0)
    ELSE IF x.m = <<>> THEN y
    ELSE IF y.m = <<>> THEN x
    ELSE XAligned(x.s, BNShl(x.m, x.e - Min(x.e, y.e)),
                  y.s, BNShl(y.m, y.e - Min(x.e, y.e)), Min(x.e, y.e))

XSub(x, y) == XAdd(x, XNeg(y))

\* -1, 0, 1: the sign of x
XSign(x) == IF x.m = <<>> THEN 0 ELSE IF x.s = 1 THEN -1 ELSE 1

XLe(x, y) == XSign(XSub(x, y)) <= 0
XLt(x, y) == XSign(XSub(x, y)) < 0

\* a significand q rounded up to 2^Prec is renormalised to 2^(Prec - 1)
Renorm(s, q, e) ==
    IF q = Two53 THEN [s |-> s, m |-> Two52, e |-> e + 1]
    ELSE [s |-> s, m |-> q, e |-> e]

\* M has bl bits
RoundBits(s, M, E, bl) ==
    IF bl <= Prec
    THEN [s |-> s, m |-> BNShl(M, Prec - bl), e |-> E - (Prec - bl)]
    ELSE Renorm(s, BNShrRNE(M, bl - Prec), E + (bl - Prec))

\* the double nearest to (-1)^s * M * 2^E, ties to even
RoundDy(s, M, E) == IF M = <<>> THEN Zero(s) ELSE RoundBits(s, M, E, BNBitLen(M))

Round(x) == RoundDy(x.s, x.m, x.e)

(***************************************************************************)
(* binary64 arithmetic: + - * / of Python floats                           *)
(***************************************************************************)
FromInt(n) == Round(XInt(n))

FAdd(x, y) == Round(XAdd(x, y))
FSub(x, y) == Round(XSub(x, y))
FMul(x, y) == Round(XMul(x, y))

\* the quotient with a last bit that says whether the division left a remainder
Sticky(qr) ==
    IF qr[2] = <<>> THEN BNMulSmall(qr[1], 2)
    ELSE BNAdd(BNMulSmall(qr[1], 2), <<1>>)

\* x / y for y # 0: the quotient of the significands to at least Prec + 3
\* bits and the sticky bit, rounded
FDiv(x, y) ==
    IF x.m = <<>> \/ y.m = <<>> THEN Zero((x.s + y.s) % 2)
    ELSE RoundDy((x.s + y.s) % 2, Sticky(BNDivMod(BNShl(x.m, Prec + 3), y.m)),
                 x.e - y.e - (Prec + 4))

\* x == y on floats: the two zeros are equal
FEq(x, y) == (x.m = <<>> /\ y.m = <<>>) \/ x = y

\* the float a decimal literal p/q denotes (0.8 is Lit(4, 5)): the nearest one
Lit(p, q) == FDiv(FromInt(p), FromInt(q))

One == [s |-> 0, m |-> Two52, e |-> -52]
Half == [s |-> 0, m |-> Two52, e |-> -53]

Negate(s, n) == IF s = 1 THEN -n ELSE n

\* int(round(x)): Python's round() of a float rounds half to even
RoundToInt(x) ==
    IF x.m = <<>> THEN 0
    ELSE IF x.e >= 0 THEN Negate(x.s, BNToInt(BNShl(x.m, x.e)))
    ELSE Negate(x.s, BNToInt(BNShrRNE(x.m, -x.e)))

(***************************************************************************)
(* str.format of a float: '{:g}' and '{:6.3f}'.  Both print the exact      *)
(* binary value correctly rounded (ties to even) to the digits asked for.  *)
(***************************************************************************)
\* |x| * 10^k rounded to the nearest integer, ties to even
ScaledRNE(x, k) ==
    IF k >= 0 /\ x.e < 0 THEN BNShrRNE(BNMul(x.m, BNPow10(k)), -x.e)
    ELSE BNDivRNE(BNMul(BNShl(x.m, Max(x.e, 0)), BNPow10(Max(k, 0))),
                  BNShl(BNPow10(Max(-k, 0)), Max(-x.e, 0)))

\* |x| >= 10^k
GePow10(x, k) ==
    BNCmp(BNMul(BNShl(x.m, Max(x.e, 0)), BNPow10(Max(-k, 0))),
          BNShl(BNPow10(Max(k, 0)), Max(-x.e, 0))) >= 0

\* the decimal exponent of x # 0: 10^X <= |x| < 10^(X+1), from an estimate
RECURSIVE FixExp10(_, _)
FixExp10(x, X) ==
    IF ~GePow10(x, X) THEN FixExp10(x, X - 1)
    ELSE IF GePow10(x, X + 1) THEN FixExp10(x, X + 1)
    ELSE X

Exp10(x) == FixExp10(x, ((BNBitLen(x.m) - 1 + x.e) * 30103) \div 100000)

\* n in decimal, zero-padded to w digits
RECURSIVE Digits(_, _)
Digits(n, w) == IF w = 0 THEN "" ELSE Digits(n \div 10, w - 1) \o ToString(n % 10)

RECURSIVE NumDigits(_)
NumDigits(n) == IF n < 10 THEN 1 ELSE 1 + NumDigits(n \div 10)

\* the fraction digits f (w of them) without trailing zeros, with the point;
\* nothing when no digit is left
RECURSIVE Fraction(_, _)
Fraction(f, w) ==
    IF w = 0 THEN ""
    ELSE IF f % 10 = 0 THEN Fraction(f \div 10, w - 1)
    ELSE "." \o Digits(f, w)

Sign(x) == IF x.s = 1 THEN "-" ELSE ""

\* the 6 digits c = d.ddddd and the decimal exponent X, as '{:g}' writes them:
\* fixed notation when -4 <= X < 6, else d.ddddde+XX; trailing zeros removed
FormatDigits(c, X) ==
    IF X >= 0 /\ X < 6
    THEN ToString(c \div 10^(5 - X)) \o Fraction(c % 10^(5 - X), 5 - X)
    ELSE IF X < 0 /\ X >= -4
    THEN "0" \o Fraction(c, 5 - X)
    ELSE ToString(c \div 100000) \o Fraction(c % 100000, 5)
         \o "e" \o (IF X < 0 THEN "-" ELSE "+")
         \o Digits(IF X < 0 THEN -X ELSE X, Max(2, NumDigits(IF X < 0 THEN -X ELSE X)))

\* rounding to 6 digits may carry into a 7th: 999999.5 is 1.00000e+06
FormatCarry(c, X) ==
    IF c = 1000000 THEN FormatDigits(100000, X + 1) ELSE FormatDigits(c, X)

FormatExp(x, X) == FormatCarry(BNToInt(ScaledRNE(x, 5 - X)), X)

\* '{:g}'.format(x)
FormatG(x) ==
    IF x.m = <<>> THEN Sign(x) \o "0" ELSE Sign(x) \o FormatExp(x, Exp10(x))

RECURSIVE Pad(_, _)
Pad(n, w) == IF n >= w THEN "" ELSE " " \o Pad(n + 1, w)

\* milli thousandths, negative if neg, with 3 decimals, padded on the left to
\* 6 characters
FormatMilli(neg, milli) ==
    Pad((IF neg THEN 1 ELSE 0) + NumDigits(milli \div 1000) + 4, 6)
    \o (IF neg THEN "-" ELSE "") \o ToString(milli \div 1000)
    \o "." \o Digits(milli % 1000, 3)

\* '{:6.3f}'.format(x)
FormatF(x) ==
    FormatMilli(x.s = 1, IF x.m = <<>> THEN 0 ELSE BNToInt(ScaledRNE(x, 3)))

\* 't={0:6.3f} u={1:g}'.format(t_i, u[idx])
Row(ti, ui) == "t=" \o FormatF(ti) \o " u=" \o FormatG(ui)

(***************************************************************************)
(* The solvers.  forward_euler, backward_euler, crank_nicolson and         *)
(* unifying each define a local function solver(I, a, T, dt[, theta]); the *)
(* four bodies differ only in the update of u[n_idx + 1].                  *)
(***************************************************************************)
__all__ == <<"forward_euler", "backward_euler", "crank_nicolson", "unifying">>

\* Nt = int(round(T / dt))
Truncate(q) ==
    IF q.m = <<>> THEN 0
    ELSE IF q.e >= 0 THEN BNToInt(BNShl(q.m, q.e))
    ELSE BNToInt(BNShr(q.m, -q.e))

MeshIntervalsTrunc(T, dt) == Truncate(FDiv(T, dt))

MeshIntervals(T, dt) == RoundToInt(FDiv(T, dt))

\* np.zeros(n)
zeros(n) == [i \in 0..(n - 1) |-> Zero(0)]

\* np.linspace(0, T, num): num points i * step + 0 with step = T / (num - 1),
\* the last one set to T itself; the single point 0 when num = 1
linspace_open(T, num) ==
    [i \in 0..(num - 1) |-> FAdd(FMul(FromInt(i), FDiv(T, FromInt(num))), Zero(0))]

linspace(T, num) ==
    [i \in 0..(num - 1) |->
        IF num = 1 THEN Zero(0)
        ELSE IF i = num - 1 THEN T
        ELSE FAdd(FMul(FromInt(i), FDiv(T, FromInt(num - 1))), Zero(0))]

\* forward_euler: (1 - a * dt) * u[n_idx]
fe_update_plus(a, dt, un) == FMul(FAdd(One, FMul(a, dt)), un)

fe_update(a, dt, un) == FMul(FSub(One, FMul(a, dt)), un)

\* backward_euler: 1 / (1 + a * dt) * u[n_idx]
be_update(a, dt, un) == FMul(FDiv(One, FAdd(One, FMul(a, dt))), un)

\* crank_nicolson: (1 - 0.5 * a * dt) / (1 + 0.5 * a * dt) * u[n_idx]
cn_update(a, dt, un) ==
    FMul(FDiv(FSub(One, FMul(FMul(Half, a), dt)),
              FAdd(One, FMul(FMul(Half, a), dt))), un)

\* unifying: (1 - (1 - theta) * a * dt) / (1 + theta * a * dt) * u[n_idx]
theta_update_reassoc(a, dt, theta, un) ==
    FDiv(FMul(FSub(One, FMul(FMul(FSub(One, theta), a), dt)), un),
         FAdd(One, FMul(FMul(theta, a), dt)))

theta_update_swapped(a, dt, theta, un) ==
    FMul(FDiv(FAdd(One, FMul(FMul(FSub(One, theta), a), dt)),
              FAdd(One, FMul(FMul(theta, a), dt))), un)

theta_update(a, dt, theta, un) ==
    FMul(FDiv(FSub(One, FMul(FMul(FSub(One, theta), a), dt)),
              FAdd(One, FMul(FMul(theta, a), dt))), un)

\* One invocation of a solver: the scheme function fn it belongs to, its
\* arguments, its place (call: not entered yet, loop: in the for loop,
\* done: returned), and its locals.  n_idx is the next value of range(Nt).
NewFrame(fn, args) ==
    [fn |-> fn, args |-> args, pc |-> "call",
     Nt |-> 0, u |-> <<>>, t |-> <<>>, n_idx |-> 0]

\* Nt = ...; u = np.zeros(Nt + 1); t = np.linspace(0, T, Nt + 1); u[0] = I
AllocateMesh(f, Nt) ==
    [f EXCEPT !.pc = "loop", !.Nt = Nt, !.n_idx = 0,
              !.u = [zeros(Nt + 1) EXCEPT ![0] = f.args.I],
              !.t = linspace(f.args.T, Nt + 1)]

Allocate(f) == AllocateMesh(f, MeshIntervals(f.args.T, f.args.dt))

\* the right-hand side of the assignment in the loop body
Update(f) ==
    LET un == f.u[f.n_idx]
    IN  CASE f.fn = "forward_euler"  -> fe_update(f.args.a, f.args.dt, un)
          [] f.fn = "backward_euler" -> be_update(f.args.a, f.args.dt, un)
          [] f.fn = "crank_nicolson" -> cn_update(f.args.a, f.args.dt, un)
          [] f.fn = "unifying"       ->
                 theta_update(f.args.a, f.args.dt, f.args.theta, un)

\* the index the loop body assigns: u[n_idx + 1] = ...
TargetSame(n_idx) == n_idx

Target(n_idx) == n_idx + 1

\* the store u[k] = v of invocation i: u is the array that invocation allocated
StoreShared(fs, i, k, v) ==
    [j \in DOMAIN fs |->
        IF j = i THEN [fs[j] EXCEPT !.u[k] = v, !.n_idx = @ + 1]
        ELSE IF k \in DOMAIN fs[j].u THEN [fs[j] EXCEPT !.u[k] = v]
        ELSE fs[j]]

Store(fs, i, k, v) == [fs EXCEPT ![i].u[k] = v, ![i].n_idx = @ + 1]

(***************************************************************************)
(* State                                                                   *)
(***************************************************************************)
VARIABLES
    argv,       \* args.functions: the scheme names given on the command line
    functions,  \* main's list of names to run
    f_idx,      \* how many names of functions main's for loop has taken
    pc,         \* main's place: parse, loop, running, done, error
    scheme,     \* the running scheme function's locals
    frames,     \* the solver invocations
    out,        \* the lines printed to standard output
    saved,      \* the files written by plt.savefig
    trace       \* history: the scheme functions entered and left, the solver
                \* calls, the error raised

vars == <<argv, functions, f_idx, pc, scheme, frames, out, saved, trace>>

driver == <<argv, functions, f_idx, pc, scheme, out, saved, trace>>

NoScheme == [fn |-> "", pc |-> "none", th_idx |-> 0, idx |-> 0]

(***************************************************************************)
(* The steps of a solver invocation i                                      *)
(***************************************************************************)
\* the call: the lines before the loop
SolverCall(i) ==
    /\ frames[i].pc = "call"
    /\ frames' = [frames EXCEPT ![i] = Allocate(@)]

\* one pass of: for n_idx in range(Nt): u[n_idx + 1] = ...
SolverStep(i) ==
    /\ frames[i].pc = "loop"
    /\ frames[i].n_idx < frames[i].Nt
    /\ frames' = Store(frames, i, Target(frames[i].n_idx), Update(frames[i]))

\* range(Nt) is exhausted: return u, t
SolverReturn(i) ==
    /\ frames[i].pc = "loop"
    /\ frames[i].n_idx = frames[i].Nt
    /\ frames' = [frames EXCEPT ![i].pc = "done"]

(***************************************************************************)
(* SolverSpec: the solvers as functions of their arguments.  A named       *)
(* solver and then the theta-rule solver are called with the same I, a, T, *)
(* dt, drawn from bounded sets.                                            *)
(***************************************************************************)
MaxT == 2

InitialValues == {FromInt(1), FromInt(-3)}
DecayRates == {FromInt(2), FromInt(3)}
EndTimes == {FromInt(n) : n \in 1..MaxT}
StepSizes == {Lit(4, 5), Lit(1, 2), Lit(3, 10), Lit(5, 2)}
Thetas == {FromInt(0), Lit(3, 10), Half, One}
NamedSchemes == {"forward_euler", "backward_euler", "crank_nicolson"}

DriverIdle ==
    /\ argv = <<>>
    /\ functions = <<>>
    /\ f_idx = 0
    /\ pc = "none"
    /\ scheme = NoScheme
    /\ out = <<>>
    /\ saved = <<>>
    /\ trace = <<>>

SolverInit ==
    /\ DriverIdle
    /\ \E I \in InitialValues, a \in DecayRates, T \in EndTimes,
          dt \in StepSizes, fn \in NamedSchemes, theta \in Thetas :
          frames = <<NewFrame(fn, [I |-> I, a |-> a, T |-> T, dt |-> dt]),
                     NewFrame("unifying", [I |-> I, a |-> a, T |-> T, dt |-> dt,
                                           theta |-> theta])>>

\* the caller's order: the theta-rule solver is called once the named one
\* has returned
InTurn(i) == i = 2 => frames[1].pc = "done"

SeqCall == (\E i \in 1..2 : InTurn(i) /\ SolverCall(i)) /\ UNCHANGED driver

SeqStep == (\E i \in 1..2 : InTurn(i) /\ SolverStep(i)) /\ UNCHANGED driver

SeqReturn == (\E i \in 1..2 : InTurn(i) /\ SolverReturn(i)) /\ UNCHANGED driver

SolverNext ==
    \/ SeqCall
    \/ SeqStep
    \/ SeqReturn

SolverSpec == SolverInit /\ [][SolverNext]_vars

(***************************************************************************)
(* ParSpec: the theta sweep of unifying() as three solver invocations      *)
(* whose steps interleave freely.                                          *)
(***************************************************************************)
ParMaxT == 1

\* for th in (0, 0.5, 1)
ThetaSweepDown == <<One, Half, FromInt(0)>>

ThetaSweep == <<FromInt(0), Half, One>>

ParInit ==
    /\ DriverIdle
    /\ \E T \in 1..ParMaxT, dt \in StepSizes :
          frames = [i \in 1..Len(ThetaSweep) |->
                       NewFrame("unifying",
                                [I |-> FromInt(1), a |-> FromInt(2), T |-> FromInt(T),
                                 dt |-> dt, theta |-> ThetaSweep[i]])]

ParCall == (\E i \in 1..Len(ThetaSweep) : SolverCall(i)) /\ UNCHANGED driver

ParStep == (\E i \in 1..Len(ThetaSweep) : SolverStep(i)) /\ UNCHANGED driver

ParReturn == (\E i \in 1..Len(ThetaSweep) : SolverReturn(i)) /\ UNCHANGED driver

ParNext ==
    \/ ParCall
    \/ ParStep
    \/ ParReturn

ParSpec == ParInit /\ [][ParNext]_vars

(***************************************************************************)
(* Spec: the program.  main() runs the scheme functions named on the       *)
(* command line; each scheme function calls its solver with the fixed      *)
(* parameters I = 1, a = 2, T = 8, dt = 0.8, prints the table and (the     *)
(* three named schemes) saves a plot.                                      *)
(***************************************************************************)
MaxArgs == 2

\* a name that is not in __all__
Unknown == "leapfrog"

\* the names f with f in __all__
Known == {__all__[i] : i \in 1..Len(__all__)}

Names == Known \cup {Unknown}

Selections == UNION {[1..n -> Names] : n \in 0..MaxArgs}

\* I = 1; a = 2; T = 8; dt = 0.8
DemoArgs == [I |-> FromInt(1), a |-> FromInt(2), T |-> FromInt(8), dt |-> Lit(4, 5)]

\* solver(I=I, a=a, T=T, dt=dt, theta=th)
SweepArgs(th) ==
    [I |-> DemoArgs.I, a |-> DemoArgs.a, T |-> DemoArgs.T, dt |-> DemoArgs.dt,
     theta |-> th]

IMGDIR == "./img/chap1/"

PlotFile(fn) ==
    CASE fn = "forward_euler"  -> "fe.png"
      [] fn = "backward_euler" -> "be.png"
      [] fn = "crank_nicolson" -> "cn.png"

Init ==
    /\ argv \in Selections
    /\ functions = <<>>
    /\ f_idx = 0
    /\ pc = "parse"
    /\ scheme = NoScheme
    /\ frames = <<>>
    /\ out = <<>>
    /\ saved = <<>>
    /\ trace = <<>>

\* functions = args.functions if args.functions else __all__
SelectAlways(given) == __all__

Select(given) == IF given # <<>> THEN given ELSE __all__

MainParse ==
    /\ pc = "parse"
    /\ functions' = Select(argv)
    /\ pc' = "loop"
    /\ UNCHANGED <<argv, f_idx, scheme, frames, out, saved, trace>>

\* for f in functions: if f not in __all__: raise ValueError(...)
MainRaise ==
    /\ pc = "loop"
    /\ f_idx < Len(functions)
    /\ functions[f_idx + 1] \notin Known
    /\ pc' = "error"
    /\ trace' = Append(trace, <<"raise", functions[f_idx + 1]>>)
    /\ UNCHANGED <<argv, functions, f_idx, scheme, frames, out, saved>>

\* print('------', f'\nRunning "{f}"'); globals()[f]()
MainRun ==
    /\ pc = "loop"
    /\ f_idx < Len(functions)
    /\ functions[f_idx + 1] \in Known
    /\ out' = out \o <<"------ ", "Running \"" \o functions[f_idx + 1] \o "\"">>
    /\ scheme' = [fn |-> functions[f_idx + 1], pc |-> "start", th_idx |-> 0, idx |-> 0]
    /\ pc' = "running"
    /\ trace' = Append(trace, <<"enter", functions[f_idx + 1]>>)
    /\ UNCHANGED <<argv, functions, f_idx, frames, saved>>

\* the scheme function has returned: print('------'), next f
MainAfter ==
    /\ pc = "running"
    /\ scheme.pc = "returned"
    /\ out' = Append(out, "------")
    /\ f_idx' = f_idx + 1
    /\ scheme' = NoScheme
    /\ pc' = "loop"
    /\ UNCHANGED <<argv, functions, frames, saved, trace>>

\* the for loop is exhausted: main returns
MainExit ==
    /\ pc = "loop"
    /\ f_idx = Len(functions)
    /\ pc' = "done"
    /\ UNCHANGED <<argv, functions, f_idx, scheme, frames, out, saved, trace>>

\* forward_euler, backward_euler, crank_nicolson: u, t = solver(I=I, a=a, T=T, dt=dt)
SchemeSolve ==
    /\ pc = "running"
    /\ scheme.fn \in NamedSchemes
    /\ scheme.pc = "start"
    /\ frames' = <<NewFrame(scheme.fn, DemoArgs)>>
    /\ scheme' = [scheme EXCEPT !.pc = "solving"]
    /\ trace' = Append(trace, <<"solve", scheme.fn, DemoArgs>>)
    /\ UNCHANGED <<argv, functions, f_idx, pc, out, saved>>

\* unifying: for th in (0, 0.5, 1): u, t = solver(I=I, a=a, T=T, dt=dt, theta=th)
UnifyingSolve ==
    /\ pc = "running"
    /\ scheme.fn = "unifying"
    /\ scheme.pc = "start"
    /\ frames' = <<NewFrame("unifying", SweepArgs(ThetaSweep[scheme.th_idx + 1]))>>
    /\ scheme' = [scheme EXCEPT !.pc = "solving"]
    /\ trace' = Append(trace, <<"solve", scheme.fn,
                                SweepArgs(ThetaSweep[scheme.th_idx + 1])>>)
    /\ UNCHANGED <<argv, functions, f_idx, pc, out, saved>>

\* the solver's steps, inside the scheme function that called it
SchemeSolver ==
    /\ pc = "running"
    /\ scheme.pc = "solving"
    /\ SolverCall(1) \/ SolverStep(1) \/ SolverReturn(1)
    /\ UNCHANGED driver

\* the solver has returned to a named scheme: the table loop starts
SchemeTable ==
    /\ pc = "running"
    /\ scheme.fn \in NamedSchemes
    /\ scheme.pc = "solving"
    /\ frames[1].pc = "done"
    /\ scheme' = [scheme EXCEPT !.pc = "print", !.idx = 0]
    /\ UNCHANGED <<argv, functions, f_idx, pc, frames, out, saved, trace>>

\* the solver has returned to unifying: print('theta = {:g}'.format(th))
UnifyingHeader ==
    /\ pc = "running"
    /\ scheme.fn = "unifying"
    /\ scheme.pc = "solving"
    /\ frames[1].pc = "done"
    /\ out' = Append(out, "theta = " \o FormatG(ThetaSweep[scheme.th_idx + 1]))
    /\ scheme' = [scheme EXCEPT !.pc = "print", !.idx = 0]
    /\ UNCHANGED <<argv, functions, f_idx, pc, frames, saved, trace>>

\* for idx, t_i in enumerate(t): print('t={0:6.3f} u={1:g}'.format(t_i, u[idx]))
SchemePrintRow ==
    /\ pc = "running"
    /\ scheme.pc = "print"
    /\ scheme.idx <= frames[1].Nt
    /\ out' = Append(out, Row(frames[1].t[scheme.idx], frames[1].u[scheme.idx]))
    /\ scheme' = [scheme EXCEPT !.idx = @ + 1]
    /\ UNCHANGED <<argv, functions, f_idx, pc, frames, saved, trace>>

\* a named scheme after its table: the figure is drawn and saved, and the
\* function returns
SchemePlot ==
    /\ pc = "running"
    /\ scheme.fn \in NamedSchemes
    /\ scheme.pc = "print"
    /\ scheme.idx > frames[1].Nt
    /\ saved' = Append(saved, IMGDIR \o PlotFile(scheme.fn))
    /\ scheme' = [scheme EXCEPT !.pc = "returned"]
    /\ trace' = Append(trace, <<"leave", scheme.fn>>)
    /\ UNCHANGED <<argv, functions, f_idx, pc, frames, out>>

\* unifying after a table: print('-----'), and the next th
UnifyingNext ==
    /\ pc = "running"
    /\ scheme.fn = "unifying"
    /\ scheme.pc = "print"
    /\ scheme.idx > frames[1].Nt
    /\ scheme.th_idx + 1 < Len(ThetaSweep)
    /\ out' = Append(out, "-----")
    /\ scheme' = [scheme EXCEPT !.pc = "start", !.th_idx = @ + 1]
    /\ UNCHANGED <<argv, functions, f_idx, pc, frames, saved, trace>>

\* unifying after its last table: print('-----'), and the function returns
UnifyingReturn ==
    /\ pc = "running"
    /\ scheme.fn = "unifying"
    /\ scheme.pc = "print"
    /\ scheme.idx > frames[1].Nt
    /\ scheme.th_idx + 1 = Len(ThetaSweep)
    /\ out' = Append(out, "-----")
    /\ scheme' = [scheme EXCEPT !.pc = "returned"]
    /\ trace' = Append(trace, <<"leave", scheme.fn>>)
    /\ UNCHANGED <<argv, functions, f_idx, pc, frames, saved>>

Next ==
    \/ MainParse
    \/ MainRaise
    \/ MainRun
    \/ MainAfter
    \/ MainExit
    \/ SchemeSolve
    \/ UnifyingSolve
    \/ SchemeSolver
    \/ SchemeTable
    \/ UnifyingHeader
    \/ SchemePrintRow
    \/ SchemePlot
    \/ UnifyingNext
    \/ UnifyingReturn

Spec == Init /\ [][Next]_vars

(***************************************************************************)
(* Properties of the solvers (SolverSpec).  Comparisons of values are made *)
(* in exact arithmetic on the values the floats have.                      *)
(***************************************************************************)
XOne == XInt(1)

Returned(i) == i \in DOMAIN frames /\ frames[i].pc = "done"

\* the indices of u assigned so far
Written(f) == IF f.pc = "call" THEN {} ELSE 0..f.n_idx

\* a valid MeshSpec: 0 < dt <= T
Valid(f) == XSign(f.args.dt) > 0 /\ XLe(f.args.dt, f.args.T)

\* Nt * dt - T
MeshGap(f) == XSub(XMul(XInt(f.Nt), f.args.dt), f.args.T)

\* the theta of a named scheme
Specialises(fn, theta) ==
    \/ fn = "forward_euler" /\ FEq(theta, FromInt(0))
    \/ fn = "backward_euler" /\ FEq(theta, FromInt(1))
    \/ fn = "crank_nicolson" /\ FEq(theta, Lit(1, 2))

\* x == y element by element
SameSequence(x, y) == DOMAIN x = DOMAIN y /\ \A k \in DOMAIN x : FEq(x[k], y[k])

\* C1: the theta-rule solver called with theta = 0, 1, 0.5 returns exactly
\* the u and the t that the Forward Euler, Backward Euler, Crank-Nicolson
\* solver returns for the same I, a, T, dt (whether or not T is a multiple
\* of dt).
ThetaRuleSpecialises ==
    (Returned(1) /\ Returned(2)
        /\ Specialises(frames[1].fn, frames[2].args.theta))
    => /\ SameSequence(frames[1].u, frames[2].u)
       /\ SameSequence(frames[1].t, frames[2].t)

\* Crank-Nicolson and theta = 0.5 have both returned a mesh of 4 intervals
\* for a T that is a multiple of dt
ThetaRuleSpecialisesWitness ==
    /\ Returned(1) /\ Returned(2)
    /\ frames[1].fn = "crank_nicolson"
    /\ Specialises(frames[1].fn, frames[2].args.theta)
    /\ XSign(MeshGap(frames[2])) = 0
    /\ frames[2].Nt = 4
    /\ XSign(frames[2].u[4]) # 0

\* 1 - (1 - theta) * a * dt and 1 + theta * a * dt, exactly
XNum(f) == XSub(XOne, XMul(XMul(XSub(XOne, f.args.theta), f.args.a), f.args.dt))
XDen(f) == XAdd(XOne, XMul(XMul(f.args.theta, f.args.a), f.args.dt))

\* |1 - (1 - theta) * a * dt| < 1 + theta * a * dt
Decaying(f) == XLt(XAbs(XNum(f)), XDen(f))

\* |u[n+1]| <= |u[n]|
NonIncreasing(f) ==
    \A n \in Written(f) : n + 1 \in Written(f) => XLe(XAbs(f.u[n + 1]), XAbs(f.u[n]))

SameSign(f) == \A n \in Written(f) : XSign(f.u[n]) = XSign(f.args.I)

NoOppositeSign(f) == \A n \in Written(f) : XSign(f.u[n]) * XSign(f.args.I) >= 0

\* C2 as stated: under |1 - (1 - theta) a dt| < 1 + theta a dt the sequence
\* of the theta-rule solver is non-increasing in magnitude and every u[n]
\* has the sign of I.
MonotonicDecayAsStated ==
    (2 \in DOMAIN frames /\ Decaying(frames[2]))
    => NonIncreasing(frames[2]) /\ SameSign(frames[2])

\* C2, amended: under |1 - (1 - theta) a dt| < 1 + theta a dt the sequence is
\* non-increasing in magnitude; if moreover (1 - theta) a dt <= 1, no u[n]
\* has the sign opposite to I's.
MonotonicDecay ==
    (2 \in DOMAIN frames /\ Decaying(frames[2]))
    => /\ NonIncreasing(frames[2])
       /\ XSign(XNum(frames[2])) >= 0 => NoOppositeSign(frames[2])

\* theta = 0.3, a = 3, dt = 0.3: a factor 0.37 / 1.27, applied to I = -3
MonotonicDecayWitness ==
    /\ Returned(2)
    /\ Decaying(frames[2])
    /\ XSign(XNum(frames[2])) > 0
    /\ frames[2].args.theta = Lit(3, 10)
    /\ frames[2].Nt >= 3
    /\ XSign(frames[2].args.I) < 0
    /\ XSign(frames[2].u[frames[2].Nt]) < 0
    /\ XLt(XAbs(frames[2].u[frames[2].Nt]), XAbs(frames[2].u[0]))

\* n is an integer nearest to q, the even one of the two when q is halfway
NearestInt(n, q) ==
    /\ XLe(XMul(XInt(2), XAbs(XSub(XInt(n), q))), XOne)
    /\ XSign(XSub(XMul(XInt(2), XAbs(XSub(XInt(n), q))), XOne)) = 0 => n % 2 = 0

\* q is T / dt to the precision of a float: |q * dt - T| <= 2^-53 * |T|
IsRatio(q, T, dt) ==
    XLe(XAbs(XSub(XMul(q, dt), T)), XMul(XPow2(-Prec), XAbs(T)))

\* C5: for 0 < dt <= T every solver returns u and t of exactly Nt + 1 points
\* each, where Nt >= 1 is the integer nearest to the ratio T / dt.
MeshLength ==
    \A i \in DOMAIN frames :
        (frames[i].pc # "call" /\ Valid(frames[i]))
        => /\ DOMAIN frames[i].u = 0..frames[i].Nt
           /\ DOMAIN frames[i].t = 0..frames[i].Nt
           /\ frames[i].Nt >= 1
           /\ \E q \in {FDiv(frames[i].args.T, frames[i].args.dt)} :
                 /\ IsRatio(q, frames[i].args.T, frames[i].args.dt)
                 /\ NearestInt(frames[i].Nt, q)

\* T = 2, dt = 0.3: the ratio 6.67 gives 7 intervals, 8 points
MeshLengthWitness ==
    /\ Returned(1)
    /\ Valid(frames[1])
    /\ frames[1].args.dt = Lit(3, 10)
    /\ frames[1].Nt = 7
    /\ DOMAIN frames[1].u = 0..7

\* C8: every solver returns u[0] = I; a step of the loop assigns u[n_idx + 1]
\* and nothing else, so no entry changes once it is assigned.
WrittenOnce ==
    [][\A i \in DOMAIN frames :
          /\ frames[i]'.pc # "call" => FEq(frames[i]'.u[0], frames[i]'.args.I)
          /\ frames[i].pc # "call" =>
                \A k \in DOMAIN frames[i].u :
                    /\ k # frames[i].n_idx + 1 => frames[i]'.u[k] = frames[i].u[k]
                    /\ k \in Written(frames[i]) => frames[i]'.u[k] = frames[i].u[k]]_vars

\* a solver has returned 4 or more values, the first one I = -3
WrittenOnceWitness ==
    /\ Returned(1)
    /\ frames[1].Nt >= 3
    /\ frames[1].args.I = FromInt(-3)
    /\ frames[1].u[0] = FromInt(-3)
    /\ frames[1].u[frames[1].Nt] # frames[1].u[0]

\* |x - y| <= 2^-k * |z|
Within(x, y, k, z) == XLe(XAbs(XSub(x, y)), XMul(XPow2(-k), XAbs(z)))

\* T is a multiple of dt up to the rounding of the floats: |Nt dt - T| <= 2^-50 T
NearMultiple(f) == Within(XMul(XInt(f.Nt), f.args.dt), f.args.T, 50, f.args.T)

RECURSIVE RunLoop(_)
RunLoop(fs) ==
    IF fs[1].n_idx = fs[1].Nt THEN fs[1]
    ELSE RunLoop(Store(fs, 1, Target(fs[1].n_idx), Update(fs[1])))

\* the invocation of f, alone
RunAlone(f) == RunLoop(<<Allocate(NewFrame(f.fn, f.args))>>)

\* what invocation f has computed so far is what r, its run alone, holds
Agrees(f, r) ==
    /\ f.t = r.t
    /\ DOMAIN f.u = DOMAIN r.u
    /\ \A k \in Written(f) : f.u[k] = r.u[k]

\* C9: however the steps of the invocations of the sweep interleave, every
\* value an invocation has assigned, and so the (t, u) it returns, is the one
\* it computes when it runs alone.
Independent ==
    \A i \in DOMAIN frames :
        frames[i].pc # "call" => Agrees(frames[i], RunAlone(frames[i]))

\* theta = 1 has returned while theta = 0 is inside its loop and theta = 0.5
\* has not started
IndependentWitness ==
    /\ Returned(3)
    /\ frames[3].Nt >= 2
    /\ frames[1].pc = "loop" /\ frames[1].n_idx = 1
    /\ frames[2].pc = "call"
    /\ frames[3].u = RunAlone(frames[3]).u

(***************************************************************************)
(* Properties of the program (Spec)                                        *)
(***************************************************************************)
\* the events of kind k in the trace
Events(k) == SelectSeq(trace, LAMBDA e : e[1] = k)

\* the scheme functions run so far, in order
Ran == [k \in 1..Len(Events("enter")) |-> Events("enter")[k][2]]

\* C3 as stated: when a name of the list is not recognized, the run aborts
\* with no scheme function run and no solver invoked.
AbortsBeforeComputation ==
    pc = "error"
    => /\ Events("enter") = <<>>
       /\ Events("solve") = <<>>
       /\ out = <<>> /\ saved = <<>>

\* the calls and returns of scheme functions, in order
Calls == SelectSeq(trace, LAMBDA e : e[1] \in {"enter", "leave"})

\* C4: with no selection main runs forward_euler, backward_euler,
\* crank_nicolson, unifying, once each and in this order; with a selection of
\* valid names it runs those, in the order given; a scheme function has
\* returned before the next one is called.
RunOrder ==
    /\ (pc = "done" /\ argv = <<>>)
       => Ran = <<"forward_euler", "backward_euler", "crank_nicolson", "unifying">>
    /\ (pc = "done" /\ argv # <<>>) => Ran = argv
    /\ \A k \in 1..Len(Calls) :
          /\ k % 2 = 1 => Calls[k][1] = "enter"
          /\ k % 2 = 0 => Calls[k] = <<"leave", Calls[k - 1][2]>>
    /\ pc = "done" => Len(Calls) % 2 = 0

\* main has returned from a run without selection
RunOrderWitness ==
    /\ pc = "done"
    /\ argv = <<>>
    /\ Len(Ran) = 4
    /\ Len(saved) = 3

\* C6: with I = 1, a = 2, T = 8, dt = 0.8 every solver returns Nt = 10 and
\* the mesh t_n = 0.8 n from 0 to 8; u[1] is -0.6 (negative) for Forward
\* Euler, 5/13 for Backward Euler and 1/9 for Crank-Nicolson, each to the
\* rounding of the floats (relative error at most 2^-50).
DemoScenario ==
    \A i \in DOMAIN frames :
        (frames[i].pc = "done" /\ frames[i].fn \in NamedSchemes)
        => /\ frames[i].args = [I |-> FromInt(1), a |-> FromInt(2),
                                T |-> FromInt(8), dt |-> Lit(4, 5)]
           /\ frames[i].Nt = 10
           /\ DOMAIN frames[i].t = 0..10
           /\ frames[i].t[0] = FromInt(0) /\ frames[i].t[10] = FromInt(8)
           /\ \A n \in 0..10 :
                 Within(XMul(XInt(5), frames[i].t[n]), XInt(4 * n), 50, XInt(4 * n))
           /\ frames[i].u[0] = FromInt(1)
           /\ frames[i].fn = "forward_euler" =>
                 /\ Within(XMul(XInt(5), frames[i].u[1]), XInt(-3), 50, XInt(3))
                 /\ XSign(frames[i].u[1]) < 0
           /\ frames[i].fn = "backward_euler" =>
                 Within(XMul(XInt(13), frames[i].u[1]), XInt(5), 50, XInt(5))
           /\ frames[i].fn = "crank_nicolson" =>
                 Within(XMul(XInt(9), frames[i].u[1]), XInt(1), 50, XInt(1))

\* forward_euler's solver has returned, with the sign flip, and the table
\* shows it
DemoScenarioWitness ==
    /\ pc = "running"
    /\ scheme.fn = "forward_euler" /\ scheme.pc = "returned"
    /\ frames[1].fn = "forward_euler" /\ frames[1].pc = "done"
    /\ frames[1].Nt = 10
    /\ XSign(frames[1].u[1]) < 0
    /\ \E k \in DOMAIN out : out[k] = "t= 0.800 u=-0.6"

\* the values of the sweep, as printed, and the u[1] of each
SweepLabel == <<"0", "0.5", "1">>
SweepSecond == <<"-0.6", "0.111111", "0.384615">>

\* the solver calls of the last sweep
SweepCalls == SubSeq(Events("solve"), Len(Events("solve")) - 2, Len(Events("solve")))

\* C7: unifying calls the solver with theta = 0, 0.5, 1 in this order and
\* I = 1, a = 2, T = 8, dt = 0.8, and prints three blocks of 13 lines: the
\* header 'theta = <value>', 11 rows of which the first shows u = 1 and the
\* second u = -0.6, 0.111111, 0.384615 respectively, and the separator.
ThetaSweepOutput ==
    (pc = "running" /\ scheme.fn = "unifying" /\ scheme.pc = "returned")
    => /\ Len(out) >= 41
       /\ out[Len(out) - 39] = "Running \"unifying\""
       /\ \A b \in 0..2 :
             /\ out[Len(out) - 39 + 13 * b + 1] = "theta = " \o SweepLabel[b + 1]
             /\ out[Len(out) - 39 + 13 * b + 2] = "t= 0.000 u=1"
             /\ out[Len(out) - 39 + 13 * b + 3] = "t= 0.800 u=" \o SweepSecond[b + 1]
             /\ \A k \in 2..12 :
                   out[Len(out) - 39 + 13 * b + k]
                       \notin {"-----"} \cup {"theta = " \o SweepLabel[j] : j \in 1..3}
             /\ out[Len(out) - 39 + 13 * b + 13] = "-----"
       /\ Len(Events("solve")) >= 3
       /\ \A b \in 1..3 :
             SweepCalls[b] =
                 <<"solve", "unifying",
                   [I |-> FromInt(1), a |-> FromInt(2), T |-> FromInt(8),
                    dt |-> Lit(4, 5), theta |-> <<FromInt(0), Lit(1, 2), FromInt(1)>>[b]]>>

\* unifying, run alone, has printed its 39 lines
ThetaSweepOutputWitness ==
    /\ pc = "running"
    /\ scheme.fn = "unifying" /\ scheme.pc = "returned"
    /\ argv = <<"unifying">>
    /\ Len(out) = 41
    /\ out[Len(out)] = "-----"

====
